---- MODULE Spec2Model ----
(***************************************************************************)
(* Model of the `pgo` kubectl plugin commands                              *)
(*     create postgrescluster <name>    (internal/cmd/create.go)           *)
(*     show backup <name> [--output] [--repoName]  (internal/cmd/show.go)  *)
(* One behaviour is one process invocation: cobra validates the positional *)
(* arguments, RunE runs its steps in program order, and every external     *)
(* call (configuration, API server, exec transport) answers                *)
(* nondeterministically.  Go strings are TLA+ strings; Len, \o and SubSeq  *)
(* act on them character by character.                                     *)
(***************************************************************************)
EXTENDS Integers, Sequences, FiniteSets, TLC

VARIABLES
    pc,         \* position in the invocation
    subcmd,     \* "create" or "show": the subcommand invoked
    args,       \* positional arguments handed to cobra
    output,     \* --output flag (show backup)
    repoName,   \* --repoName flag (show backup)
    repoNum,    \* repoNum local of show backup's RunE
    namespace,  \* namespace resolved from the kube configuration
    pods,       \* pods.Items of the List result
    cluster,    \* object built by generateUnstructuredClusterYaml
    u,          \* object returned by Create
    calls,      \* external calls made so far, in order
    listReq,    \* arguments of the List call
    createReq,  \* arguments of the Create call
    execReq,    \* arguments the Executor was invoked with
    remote,     \* what happened on the remote side of the exec
    stdout,     \* stdout string returned by pgBackRestInfo
    stderr,     \* stderr string returned by pgBackRestInfo
    out,        \* everything the command printed (cmd.Printf)
    err         \* error returned by the command, NoError while none

vars == <<pc, subcmd, args, output, repoName, repoNum, namespace, pods,
          cluster, u, calls, listReq, createReq, execReq, remote,
          stdout, stderr, out, err>>

-----------------------------------------------------------------------------
(* Bounds of the model                                                     *)

MaxNameLen == 2        \* longest cluster name
MaxExtraArgs == 1      \* positional arguments beyond the first
MaxRepoPrefixes == 2   \* leading copies of "repo" in --repoName
MaxRepoSuffixLen == 1  \* characters after them
MaxPods == 2           \* pods a List call returns
MaxStdoutLen == 2      \* characters of remote stdout

-----------------------------------------------------------------------------
(* Strings                                                                 *)

RECURSIVE Strings(_, _)
\* every string over `alphabet` of length at most n
Strings(alphabet, n) ==
    IF n = 0 THEN {""}
    ELSE LET shorter == Strings(alphabet, n - 1)
         IN  shorter \cup {s \o c : s \in shorter, c \in alphabet}

RECURSIVE Repeat(_, _)
Repeat(s, k) == IF k = 0 THEN "" ELSE s \o Repeat(s, k - 1)

CharAt(s, i) == SubSeq(s, i, i)
Drop(s, k) == SubSeq(s, k + 1, Len(s))

\* strings.Contains
Contains(s, sub) ==
    \E i \in 1..(Len(s) - Len(sub) + 1) : SubSeq(s, i, i + Len(sub) - 1) = sub

\* strings.HasPrefix
HasPrefix(s, prefix) ==
    /\ Len(s) >= Len(prefix)
    /\ SubSeq(s, 1, Len(prefix)) = prefix

RECURSIVE TrimLeft(_, _)
\* strings.TrimLeft, which takes a SET of characters: a slip for TrimPrefix
TrimLeft(s, cutset) ==
    IF s # "" /\ Contains(cutset, CharAt(s, 1))
    THEN TrimLeft(Drop(s, 1), cutset)
    ELSE s

\* strings.TrimPrefix: s without the leading prefix, s itself when it does
\* not start with prefix
TrimPrefix(s, prefix) ==
    IF HasPrefix(s, prefix) THEN Drop(s, Len(prefix)) ELSE s

-----------------------------------------------------------------------------
(* fmt.Sprintf, as cobra's cmd.Printf applies it: the first argument is    *)
(* the FORMAT.  Operands are strings.  A verb consumes one operand; %% is  *)
(* a literal percent sign; a verb with no operand left prints              *)
(* %!v(MISSING), a lone trailing % prints %!(NOVERB), a verb other than    *)
(* s or v given a string prints %!v(string=...).                           *)

RECURSIVE Sprintf(_, _)
Sprintf(format, operands) ==
    IF format = "" THEN ""
    ELSE IF CharAt(format, 1) # "%"
         THEN CharAt(format, 1) \o Sprintf(Drop(format, 1), operands)
    ELSE IF Len(format) = 1 THEN "%!(NOVERB)"
    ELSE LET verb == CharAt(format, 2)
             rest == Drop(format, 2)
         IN  IF verb = "%" THEN "%" \o Sprintf(rest, operands)
             ELSE IF operands = <<>>
                  THEN "%!" \o verb \o "(MISSING)" \o Sprintf(rest, operands)
             ELSE IF verb \in {"s", "v"}
                  THEN Head(operands) \o Sprintf(rest, Tail(operands))
             ELSE "%!" \o verb \o "(string=" \o Head(operands) \o ")"
                      \o Sprintf(rest, Tail(operands))

-----------------------------------------------------------------------------
(* Errors.  An error is a string naming it; NoError is Go's nil error.     *)

NoError == "nil"
UsageError == "accepts 1 arg(s)"
ConfigError == "ToRESTConfig failed"
ClientError == "NewForConfig failed"
NamespaceError == "Namespace failed"
ParseError == "yaml: mapping values are not allowed in this context"
LookupError == "Primary instance Pod not found."
ExecutorError == "NewPodExecutor failed"
TransportError == "exec stream failed"
ApiErrors == {"NotFound", "Conflict", "Forbidden"}

-----------------------------------------------------------------------------
(* create.go                                                               *)

\* A YAML scalar after decoding: its type and its text.
StringValue(s) == [type |-> "string", text |-> s]
IntValue(s) == [type |-> "int", text |-> s]
NullValue == [type |-> "null", text |-> ""]

IsDigits(s) == s # "" /\ \A i \in 1..Len(s) : CharAt(s, i) \in
        {"0", "1", "2", "3", "4", "5", "6", "7", "8", "9"}

\* yaml.Unmarshal of the text that fmt.Sprintf puts after "  name: ", for
\* names made of letters, digits and ':'.  The name is written unquoted, so
\* it is read as a YAML plain scalar: nothing is the null value, a ':' before
\* the line break is a mapping indicator where no mapping may start (an
\* error), decimal digits are an integer, anything else is a string.
YamlWellFormed(name) == name = "" \/ CharAt(name, Len(name)) # ":"

YamlScalar(name) ==
    IF name = "" THEN NullValue
    ELSE IF IsDigits(name) THEN IntValue(name)
    ELSE StringValue(name)

\* The object the template decodes to (create.go, the literal in
\* generateUnstructuredClusterYaml).
ClusterTemplate(nameValue) ==
    [ apiVersion |-> "postgres-operator.crunchydata.com/v1beta1",
      kind       |-> "PostgresCluster",
      metadata   |-> [name |-> nameValue],
      spec       |->
        [ postgresVersion |-> 14,
          instances |-> << [accessModes |-> <<"ReadWriteOnce">>,
                            storage     |-> "1Gi"] >>,
          repos     |-> << [name        |-> "repo1",
                            accessModes |-> <<"ReadWriteOnce">>,
                            storage     |-> "1Gi"] >> ] ]

\* generateUnstructuredClusterYaml: (*Unstructured, error).  The object is
\* <<>> for Go's nil pointer and <<object>> otherwise.
generateUnstructuredClusterYaml(name) ==
    IF YamlWellFormed(name)
    THEN [object |-> <<ClusterTemplate(YamlScalar(name))>>, err |-> NoError]
    ELSE [object |-> <<>>, err |-> ParseError]

\* Unstructured.GetName: the metadata.name field when it holds a string,
\* the empty string otherwise.
GetName(object) ==
    IF object.metadata.name.type = "string"
    THEN object.metadata.name.text
    ELSE ""

\* cobra.MinimumNArgs(n): a slip for ExactArgs
MinimumNArgs(n, arguments) == Len(arguments) >= n

\* cobra.ExactArgs(n)
ExactArgs(n, arguments) == Len(arguments) = n

\* what create postgrescluster prints once Create has succeeded
CreatedLine(object) ==
    Sprintf("postgresclusters/%s created\n", <<GetName(object)>>)

-----------------------------------------------------------------------------
(* show.go                                                                 *)

\* util.PrimaryInstanceLabels
PrimaryInstanceLabels(name) ==
    "postgres-operator.crunchydata.com/cluster=" \o name
        \o ",postgres-operator.crunchydata.com/data=postgres"
        \o ",postgres-operator.crunchydata.com/role=master"

\* util.ContainerDatabase
ContainerDatabase == "database"

\* pgBackRestInfo without its test of repoNum
pgBackRestCommandAlwaysRepo(fmt, num) ==
    "pgbackrest info --output=" \o fmt \o " --repo=" \o num

\* the command string pgBackRestInfo builds
pgBackRestCommand(fmt, num) ==
    LET base == "pgbackrest info --output=" \o fmt
    IN  IF num # "" THEN base \o " --repo=" \o num ELSE base

\* a test of len(pods.Items) == 0 in place of != 1
PrimaryFoundAtLeastOne(items) == Len(items) >= 1

\* the len(pods.Items) != 1 test of show backup, negated
PrimaryFound(items) == Len(items) = 1

\* The error the pod executor returns for an exec: the transport's failure.
\* The remote command's exit status is data, not an error.
PodExecError(result) ==
    IF result.transport = "failed" THEN TransportError ELSE NoError

\* show backup printing before it tests the error
ShowOutputUnchecked(so, se, e) ==
    Sprintf(so, <<>>)
        \o (IF se # "" THEN Sprintf("\nError returned: %s\n", <<se>>) ELSE "")

\* show backup failing when the remote command wrote to stderr
ShowErrorOnStderr(so, se, e) ==
    IF e # NoError THEN e
    ELSE IF se # "" THEN "remote command failed"
    ELSE NoError

\* what show backup prints, and the error it returns, given what
\* pgBackRestInfo returned
ShowOutput(so, se, e) ==
    IF e # NoError THEN ""
    ELSE Sprintf(so, <<>>)
         \o (IF se # "" THEN Sprintf("\nError returned: %s\n", <<se>>) ELSE "")

ShowError(so, se, e) == e

-----------------------------------------------------------------------------
(* Inputs and answers of the environment                                   *)

Names == Strings({"h", "1", ":"}, MaxNameLen)
Arguments ==
    {<<>>} \cup
    {<<n>> \o [i \in 1..k |-> "extra"] : n \in Names, k \in 0..MaxExtraArgs}
Outputs == {"text", "json", "text --repo=1"}
RepoNames ==
    {Repeat("repo", k) \o s :
        k \in 0..MaxRepoPrefixes, s \in Strings({"r", "2"}, MaxRepoSuffixLen)}
Namespaces == {"default", "pgo"}
Stdouts == Strings({"t", "%"}, MaxStdoutLen)
Stderrs == {"", "warn"}
ExitCodes == {0, 1}
\* the objects a server may answer a Create of `object` with: the object
\* itself, or the object under a name of the server's choosing
Created(object) ==
    {object, [object EXCEPT !.metadata.name = StringValue("srv")]}
PodList(ns, n) == [i \in 1..n |-> [namespace |-> ns, name |-> "pod" \o ToString(i)]]

NoRequest == <<>>
NotRun == [transport |-> "none", exit |-> 0]

-----------------------------------------------------------------------------
(* The invocation                                                          *)

InitCreate ==
    /\ subcmd = "create"
    /\ args \in Arguments
    /\ output = ""
    /\ repoName = ""

InitShow ==
    /\ subcmd = "show"
    /\ args \in Arguments
    /\ output \in Outputs
    /\ repoName \in RepoNames

Init ==
    /\ pc = "start"
    /\ (InitCreate \/ InitShow)
    /\ repoNum = ""
    /\ namespace = ""
    /\ pods = <<>>
    /\ cluster = <<>>
    /\ u = <<>>
    /\ calls = <<>>
    /\ listReq = NoRequest
    /\ createReq = NoRequest
    /\ execReq = NoRequest
    /\ remote = NotRun
    /\ stdout = ""
    /\ stderr = ""
    /\ out = ""
    /\ err = NoError

\* an error recorded without leaving RunE
ReturnWithoutEnding(e) ==
    /\ err' = e
    /\ pc' = IF e = NoError THEN "done" ELSE pc

\* return e from RunE (or from cobra's argument validation)
Return(e) ==
    /\ err' = e
    /\ pc' = "done"

\* cobra: cmd.Args = cobra.ExactArgs(1), checked before RunE is entered
ValidateArgs ==
    /\ pc = "start"
    /\ IF ExactArgs(1, args)
       THEN /\ pc' = (IF subcmd = "create" THEN "createNamespace" ELSE "showRESTConfig")
            /\ err' = err
       ELSE Return(UsageError)
    /\ UNCHANGED <<subcmd, args, output, repoName, repoNum, namespace, pods,
                   cluster, u, calls, listReq, createReq, execReq, remote,
                   stdout, stderr, out>>

(* create postgrescluster: RunE, create.go 57-97                           *)

\* namespace, _, err := kubeconfig.ToRawKubeConfigLoader().Namespace()
CreateNamespace ==
    /\ pc = "createNamespace"
    /\ calls' = Append(calls, "Namespace")
    /\ \/ /\ namespace' = namespace
          /\ Return(NamespaceError)
       \/ /\ namespace' \in Namespaces
          /\ pc' = "createRESTConfig"
          /\ err' = err
    /\ UNCHANGED <<subcmd, args, output, repoName, repoNum, pods, cluster, u,
                   listReq, createReq, execReq, remote, stdout, stderr, out>>

\* config, err := kubeconfig.ToRESTConfig()
CreateRESTConfig ==
    /\ pc = "createRESTConfig"
    /\ calls' = Append(calls, "ToRESTConfig")
    /\ \/ Return(ConfigError)
       \/ /\ pc' = "createNewClient"
          /\ err' = err
    /\ UNCHANGED <<subcmd, args, output, repoName, repoNum, namespace, pods,
                   cluster, u, listReq, createReq, execReq, remote, stdout,
                   stderr, out>>

\* client, err := dynamic.NewForConfig(config)
CreateNewClient ==
    /\ pc = "createNewClient"
    /\ calls' = Append(calls, "NewForConfig")
    /\ \/ Return(ClientError)
       \/ /\ pc' = "createGenerate"
          /\ err' = err
    /\ UNCHANGED <<subcmd, args, output, repoName, repoNum, namespace, pods,
                   cluster, u, listReq, createReq, execReq, remote, stdout,
                   stderr, out>>

\* cluster, err := generateUnstructuredClusterYaml(clusterName)
CreateGenerate ==
    /\ pc = "createGenerate"
    /\ LET r == generateUnstructuredClusterYaml(args[1])
       IN  /\ cluster' = r.object
           /\ IF r.err # NoError
              THEN Return(r.err)
              ELSE /\ pc' = "createCreate"
                   /\ err' = err
    /\ UNCHANGED <<subcmd, args, output, repoName, repoNum, namespace, pods,
                   u, calls, listReq, createReq, execReq, remote, stdout,
                   stderr, out>>

\* u, err := client.Resource(...).Namespace(namespace).Create(ctx, cluster, ...)
\* and, on success, cmd.Printf("postgresclusters/%s created\n", u.GetName())
CreateCreate ==
    /\ pc = "createCreate"
    /\ calls' = Append(calls, "Create")
    /\ createReq' = <<[resource  |-> "postgresclusters",
                       namespace |-> namespace,
                       object    |-> cluster[1]]>>
    /\ \/ \E e \in ApiErrors :
            /\ Return(e)
            /\ UNCHANGED <<u, out>>
       \/ \E answer \in Created(cluster[1]) :
            /\ u' = <<answer>>
            /\ out' = out \o CreatedLine(answer)
            /\ Return(NoError)
    /\ UNCHANGED <<subcmd, args, output, repoName, repoNum, namespace, pods,
                   cluster, listReq, execReq, remote, stdout, stderr>>

(* show backup: RunE, show.go 91-157                                       *)

\* repoNum := strings.TrimPrefix(repoName, "repo")
\* config, err := kubeconfig.ToRESTConfig()
ShowRESTConfig ==
    /\ pc = "showRESTConfig"
    /\ repoNum' = TrimPrefix(repoName, "repo")
    /\ calls' = Append(calls, "ToRESTConfig")
    /\ \/ Return(ConfigError)
       \/ /\ pc' = "showNewClient"
          /\ err' = err
    /\ UNCHANGED <<subcmd, args, output, repoName, namespace, pods, cluster,
                   u, listReq, createReq, execReq, remote, stdout, stderr,
                   out>>

\* client, err := dynamic.NewForConfig(config)
ShowNewClient ==
    /\ pc = "showNewClient"
    /\ calls' = Append(calls, "NewForConfig")
    /\ \/ Return(ClientError)
       \/ /\ pc' = "showNamespace"
          /\ err' = err
    /\ UNCHANGED <<subcmd, args, output, repoName, repoNum, namespace, pods,
                   cluster, u, listReq, createReq, execReq, remote, stdout,
                   stderr, out>>

\* configNamespace, _, err := kubeconfig.ToRawKubeConfigLoader().Namespace()
ShowNamespace ==
    /\ pc = "showNamespace"
    /\ calls' = Append(calls, "Namespace")
    /\ \/ /\ namespace' = namespace
          /\ Return(NamespaceError)
       \/ /\ namespace' \in Namespaces
          /\ pc' = "showList"
          /\ err' = err
    /\ UNCHANGED <<subcmd, args, output, repoName, repoNum, pods, cluster, u,
                   listReq, createReq, execReq, remote, stdout, stderr, out>>

\* pods, err := client.Resource(pods).Namespace(configNamespace).List(...)
\* and the test of len(pods.Items)
ShowList ==
    /\ pc = "showList"
    /\ calls' = Append(calls, "List")
    /\ listReq' = <<[resource  |-> "pods",
                     namespace |-> namespace,
                     selector  |-> PrimaryInstanceLabels(args[1])]>>
    /\ \/ \E e \in ApiErrors :
            /\ pods' = pods
            /\ Return(e)
       \/ \E n \in 0..MaxPods :
            /\ pods' = PodList(namespace, n)
            /\ IF PrimaryFound(pods')
               THEN /\ pc' = "showNewPodExecutor"
                    /\ err' = err
               ELSE Return(LookupError)
    /\ UNCHANGED <<subcmd, args, output, repoName, repoNum, namespace,
                   cluster, u, createReq, execReq, remote, stdout, stderr,
                   out>>

\* PodExec, err := util.NewPodExecutor(config)
ShowNewPodExecutor ==
    /\ pc = "showNewPodExecutor"
    /\ calls' = Append(calls, "NewPodExecutor")
    /\ \/ Return(ExecutorError)
       \/ /\ pc' = "showExec"
          /\ err' = err
    /\ UNCHANGED <<subcmd, args, output, repoName, repoNum, namespace, pods,
                   cluster, u, listReq, createReq, execReq, remote, stdout,
                   stderr, out>>

\* what the remote side of an exec may do: the stream fails, or the command
\* runs to an exit status
ExecResults ==
    {[transport |-> "failed", exit |-> 0]}
        \cup {[transport |-> "ok", exit |-> x] : x \in ExitCodes}

\* stdout, stderr, err := Executor(exec).pgBackRestInfo(output, repoNum)
\* with the exec closure of RunE, then the error test and the printing
ShowPgBackRestInfo ==
    /\ pc = "showExec"
    /\ calls' = Append(calls, "Exec")
    /\ execReq' = <<[namespace |-> pods[1].namespace,
                     pod       |-> pods[1].name,
                     container |-> ContainerDatabase,
                     stdin     |-> "nil",
                     command   |-> <<"bash", "-ceu", "--",
                                     pgBackRestCommand(output, repoNum)>>]>>
    /\ \E result \in ExecResults, so \in Stdouts, se \in Stderrs :
            /\ remote' = result
            /\ stdout' = so
            /\ stderr' = se
            /\ out' = out \o ShowOutput(so, se, PodExecError(result))
            /\ Return(ShowError(so, se, PodExecError(result)))
    /\ UNCHANGED <<subcmd, args, output, repoName, repoNum, namespace, pods,
                   cluster, u, listReq, createReq>>

-----------------------------------------------------------------------------

Next ==
    \/ ValidateArgs
    \/ CreateNamespace
    \/ CreateRESTConfig
    \/ CreateNewClient
    \/ CreateGenerate
    \/ CreateCreate
    \/ ShowRESTConfig
    \/ ShowNewClient
    \/ ShowNamespace
    \/ ShowList
    \/ ShowNewPodExecutor
    \/ ShowPgBackRestInfo

Spec == Init /\ [][Next]_vars

-----------------------------------------------------------------------------
(* Vocabulary of the properties                                            *)

Done == pc = "done"
Called(c) == \E i \in 1..Len(calls) : calls[i] = c
Count(c) == Cardinality({i \in 1..Len(calls) : calls[i] = c})
Position(c) == CHOOSE i \in 1..Len(calls) : calls[i] = c
\* List returned a pod list (it was called, and the run did not end with
\* the error it returned)
ListSucceeded == subcmd = "show" /\ Called("List") /\ err \notin ApiErrors
ExecutorInvoked == execReq # NoRequest
ExecutedCommand == execReq[1].command[4]
\* the "Error returned:" line show backup adds for a stderr text
ErrorLine(se) == "\nError returned: " \o se \o "\n"

-----------------------------------------------------------------------------
(* C1: in show backup, a pod list with zero or with two or more items ends *)
(* the run with the lookup error "Primary instance Pod not found." and     *)
(* without an Executor call; the Executor is invoked only after a List     *)
(* call that succeeded with exactly one pod.                               *)
C1_LookupDecidesExec ==
    /\ (ListSucceeded /\ Len(pods) # 1) =>
          /\ Done
          /\ err = LookupError
          /\ ~Called("Exec")
          /\ ~ExecutorInvoked
    /\ (Called("Exec") \/ ExecutorInvoked) =>
          /\ ListSucceeded
          /\ Len(pods) = 1
          /\ Position("List") < Position("Exec")

C1_Witness ==
    /\ subcmd = "show"
    /\ ListSucceeded
    /\ Len(pods) = 2
    /\ err = LookupError

-----------------------------------------------------------------------------
-----------------------------------------------------------------------------
(* C3: when the Executor returns without error, show backup prints exactly *)
(* the captured stdout, verbatim, followed by the "Error returned:" line   *)
(* carrying stderr if and only if stderr is non-empty.                     *)
C3_StdoutVerbatim ==
    (subcmd = "show" /\ Done /\ ExecutorInvoked /\ err = NoError) =>
        out = stdout \o (IF stderr # "" THEN ErrorLine(stderr) ELSE "")

-----------------------------------------------------------------------------
(* C4: create postgrescluster prints "postgresclusters/<n> created" if and *)
(* only if Create succeeded, <n> being the name of the object the API      *)
(* returned, which is the requested name when the API echoes the submitted *)
(* object; on an API error it returns that error and prints nothing.       *)
C4_CreatedLine ==
    (subcmd = "create" /\ Done) =>
        /\ Contains(out, " created") <=> (Called("Create") /\ err = NoError)
        /\ (Called("Create") /\ err = NoError) =>
              /\ u # <<>>
              /\ out = "postgresclusters/" \o GetName(u[1]) \o " created\n"
              /\ u = cluster => out = "postgresclusters/" \o args[1] \o " created\n"
        /\ (Called("Create") /\ err # NoError) =>
              /\ err \in ApiErrors
              /\ out = ""

-----------------------------------------------------------------------------
(* C5: for every --output value f and every --repoName "repo" + s with s   *)
(* non-empty, the Executor is invoked with nil stdin and the vector        *)
(* ("bash", "-ceu", "--", c), c = "pgbackrest info --output=" + f +        *)
(* " --repo=" + s.                                                         *)
C5_ExecutorArguments ==
    ExecutorInvoked =>
        LET s == SubSeq(repoName, 5, Len(repoName))
        IN  (s # "" /\ repoName = "repo" \o s) =>
                /\ execReq[1].stdin = "nil"
                /\ execReq[1].command =
                      <<"bash", "-ceu", "--",
                        "pgbackrest info --output=" \o output \o " --repo=" \o s>>
                /\ Contains(ExecutedCommand, "--output=" \o output)
                /\ Contains(ExecutedCommand, "--repo=" \o s)

C5_Witness ==
    /\ ExecutorInvoked
    /\ output = "json"
    /\ repoName = "repo2"
    /\ ExecutedCommand = "pgbackrest info --output=json --repo=2"

-----------------------------------------------------------------------------
\* a Kubernetes object name (RFC 1123 subdomain): lower-case letters,
\* digits, '-' and '.', starting and ending with a letter or a digit
AlphaNumerics ==
    {"a", "b", "c", "d", "e", "f", "g", "h", "i", "j", "k", "l", "m", "n",
     "o", "p", "q", "r", "s", "t", "u", "v", "w", "x", "y", "z",
     "0", "1", "2", "3", "4", "5", "6", "7", "8", "9"}
ValidName(s) ==
    /\ s # ""
    /\ \A i \in 1..Len(s) : CharAt(s, i) \in AlphaNumerics \cup {"-", "."}
    /\ CharAt(s, 1) \in AlphaNumerics
    /\ CharAt(s, Len(s)) \in AlphaNumerics
\* generateUnstructuredClusterYaml has returned in this run
Generated ==
    /\ subcmd = "create"
    /\ pc = "createCreate" \/ Called("Create") \/ err = ParseError

(* C6: for any valid (non-empty) name, generateUnstructuredClusterYaml     *)
(* returns without error a PostgresCluster object whose metadata name      *)
(* field equals the input string exactly, with the fixed defaults (one     *)
(* instance with 1Gi storage, one repository repo1, postgresVersion 14);   *)
(* on a parse error it returns the error and no object.                    *)
C6_NameFieldEqualsInput ==
    Generated =>
        /\ ValidName(args[1]) =>
              /\ err # ParseError
              /\ Len(cluster) = 1
              /\ cluster[1].kind = "PostgresCluster"
              /\ cluster[1].metadata.name = StringValue(args[1])
              /\ cluster[1].spec.postgresVersion = 14
              /\ Len(cluster[1].spec.instances) = 1
              /\ cluster[1].spec.instances[1].storage = "1Gi"
              /\ Len(cluster[1].spec.repos) = 1
              /\ cluster[1].spec.repos[1].name = "repo1"
        /\ err = ParseError => cluster = <<>>

-----------------------------------------------------------------------------
ExternalCalls ==
    {"ToRESTConfig", "NewForConfig", "Namespace", "List", "NewPodExecutor",
     "Exec", "Create"}
LastCall == calls[Len(calls)]
\* the step an error comes from is the last thing the run did
ErrorFromLastStep ==
    \/ err = UsageError /\ calls = <<>>
    \/ err = ConfigError /\ LastCall = "ToRESTConfig"
    \/ err = ClientError /\ LastCall = "NewForConfig"
    \/ err = NamespaceError /\ LastCall = "Namespace"
    \/ err = ParseError /\ LastCall = "NewForConfig" /\ subcmd = "create"
    \/ err \in ApiErrors /\ LastCall = "Create" /\ subcmd = "create"
    \/ err \in ApiErrors /\ LastCall = "List" /\ subcmd = "show"
    \/ err = LookupError /\ LastCall = "List"
    \/ err = ExecutorError /\ LastCall = "NewPodExecutor"
    \/ err = TransportError /\ LastCall = "Exec"

(* C7: an invocation is one linear run with no retries: at most one        *)
(* Create, one List and one Executor call (no external call is repeated),  *)
(* and the first error of any step ends the run with that error, no        *)
(* external call following it; a run that has ended takes no further step. *)
C7_SingleLinearRun ==
    /\ [](/\ \A c \in ExternalCalls : Count(c) <= 1
          /\ err # NoError => (Done /\ ErrorFromLastStep))
    /\ [][~Done /\ (err # NoError => calls' = calls)]_vars

C7_Witness ==
    /\ subcmd = "show"
    /\ Done
    /\ err = LookupError
    /\ calls = <<"ToRESTConfig", "NewForConfig", "Namespace", "List">>

-----------------------------------------------------------------------------
(* C8: both commands accept exactly one positional argument; with none or  *)
(* with two or more the command fails at once with a usage error, before   *)
(* any configuration is loaded and before any Create, List or Executor     *)
(* call; with exactly one it does not fail with a usage error.             *)
C8_ExactlyOneArgument ==
    /\ Len(args) # 1 =>
          /\ pc = "start" \/ (Done /\ err = UsageError)
          /\ calls = <<>>
          /\ listReq = NoRequest /\ createReq = NoRequest /\ ~ExecutorInvoked
          /\ out = ""
    /\ Len(args) = 1 =>
          /\ err # UsageError
          /\ Done => calls # <<>>

C8_Witness ==
    /\ subcmd = "show"
    /\ Len(args) = 2
    /\ Done
    /\ err = UsageError

-----------------------------------------------------------------------------
(* C9: if the Executor returns an error, show backup returns that error    *)
(* and prints nothing: the stdout and stderr captured before the error are *)
(* discarded.                                                              *)
C9_ExecErrorPrintsNothing ==
    (subcmd = "show" /\ ExecutorInvoked /\ PodExecError(remote) # NoError) =>
        /\ Done
        /\ err = PodExecError(remote)
        /\ out = ""

C9_Witness ==
    /\ subcmd = "show"
    /\ Done
    /\ remote.transport = "failed"
    /\ stdout # ""
    /\ stderr # ""
    /\ err = TransportError

-----------------------------------------------------------------------------
\* the --repoName value with one leading "repo" removed
WithoutOneRepo(s) ==
    IF Len(s) >= 4 /\ SubSeq(s, 1, 4) = "repo" THEN SubSeq(s, 5, Len(s)) ELSE s

(* C10, as stated: the command string contains " --repo=" if and only if   *)
(* the --repoName value with one leading "repo" removed is non-empty.      *)
C10_RepoOptionIffRepoNum ==
    ExecutorInvoked =>
        (Contains(ExecutedCommand, " --repo=") <=> WithoutOneRepo(repoName) # "")

(* C10, amended: the command string is "pgbackrest info --output=<output>" *)
(* followed by " --repo=<r>" if and only if r, the --repoName value with   *)
(* one leading "repo" removed, is non-empty; with --repoName unset or      *)
(* exactly "repo" nothing follows the output value, so the string contains *)
(* " --repo=" only if the --output value itself does.  Only one leading    *)
(* "repo" is stripped and a value without the prefix is passed whole.      *)
C10_RepoOptionAppended ==
    ExecutorInvoked =>
        LET r == WithoutOneRepo(repoName)
            base == "pgbackrest info --output=" \o output
        IN  /\ r = "" => ExecutedCommand = base
            /\ r # "" => ExecutedCommand = base \o " --repo=" \o r
            /\ ~Contains(output, " --repo=") =>
                  (Contains(ExecutedCommand, " --repo=") <=> r # "")
            /\ repoName \in {"", "repo"} => ExecutedCommand = base
            /\ repoName = "reporepo2" =>
                  ExecutedCommand = base \o " --repo=repo2"
            /\ repoName = "2" => ExecutedCommand = base \o " --repo=2"

C10_Witness ==
    /\ ExecutorInvoked
    /\ repoName = "reporepo2"
    /\ output = "text"
    /\ ExecutedCommand = "pgbackrest info --output=text --repo=repo2"

====
